---- MODULE Spec2Model ----
(***************************************************************************)
(* Model of digits/model/tasks/train.py (TrainTask): the epoch/metric      *)
(* recorder of a training job.  The state is the task object's fields; one *)
(* action per public method that the training backend or the web           *)
(* application calls.                                                      *)
(*                                                                         *)
(* Python values stored in a series are modelled as tagged records:        *)
(*   Scalar(v)  a number, NoneRow  the value None, List(l)  a python list  *)
(* A table (OrderedDict) is a sequence of entries in insertion order.      *)
(***************************************************************************)
EXTENDS Integers, Sequences, FiniteSets, TLC

VARIABLES
    current_epoch,      \* self.current_epoch
    train_outputs,      \* self.train_outputs (OrderedDict name -> NetworkOutput)
    val_outputs,        \* self.val_outputs
    last_train_update,  \* self.last_train_update, 0 while unset (None)
    now,                \* the last value time.time() returned
    emitted,            \* socketio messages emitted by the last call
    last,               \* the last call: its arguments and outcome
    last_push,          \* time of the last train-side graph push, 0 if none
    mono,               \* no send_progress_update call has lowered current_epoch
    hist,               \* values saved per (table, name) since current_epoch changed
    budget,             \* save_*_output calls the run may still make
    pickled,            \* the persisted state __setstate__ is given, or NoState
    obj,                \* "live": the task exists; "none": not loaded yet; "failed"
    pickver_task_train, \* self.pickver_task_train
    graph               \* what the last *_graph_data call returned

vars == <<current_epoch, train_outputs, val_outputs, last_train_update, now,
          emitted, last, last_push, mono, hist, budget, pickled, obj,
          pickver_task_train, graph>>

(***************************************************************************)
(* Bounds of the model.                                                    *)
(***************************************************************************)
MaxEpoch == 1
MaxCalls == 3
MaxRowCalls == 4
MaxLoadCalls == 1
MaxOld == 2
MaxGraphRows == 250

Epochs == 0..MaxEpoch
\* the values the backend reports; OneValue where the order of values is not at stake
Values == {1, 2}
OneValue == {1}
\* seconds between two save_train_output calls
Delays == {0, 4, 5}

\* NOTE: Increment this everytime the picked object changes
PICKLE_VERSION == 2
\* seconds between two train-side pushes
TRAIN_UPDATE_INTERVAL == 5
\* graphs show one row in every len/100
GRAPH_POINTS == 100

(***************************************************************************)
(* Python values.                                                          *)
(***************************************************************************)
Scalar(v) == [tag |-> "S", v |-> v, l |-> <<>>]
NoneRow == [tag |-> "N", v |-> 0, l |-> <<>>]
List(l) == [tag |-> "L", v |-> 0, l |-> l]

\* NetworkOutput = namedtuple('NetworkOutput', ['kind', 'data']), with its key
NetworkOutput(name, kind, data) == [name |-> name, kind |-> kind, data |-> data]

EmptyTable == <<>>

Keys(d) == {d[i].name : i \in 1..Len(d)}
Has(d, name) == name \in Keys(d)
Idx(d, name) == CHOOSE i \in 1..Len(d) : d[i].name = name
Get(d, name) == d[Idx(d, name)]
SetData(d, name, data) == [d EXCEPT ![Idx(d, name)].data = data]
LastOf(s) == s[Len(s)]
Front(s) == SubSeq(s, 1, Len(s) - 1)

\* the names and kinds of the outputs the backend reports
Loss == <<"loss", "SoftmaxWithLoss">>
Accuracy == <<"accuracy", "Accuracy">>
LearningRate == <<"learning_rate", "LearningRate">>
Tables == {"train", "val"}
Names == {"loss", "accuracy", "learning_rate"}

(***************************************************************************)
(* save_output                                                             *)
(***************************************************************************)
\* faulty variant: every call opens a row, the comparison with the last epoch is lost
UpdateEpochAlways(d, cur) ==
    IF ~Has(d, "epoch")
    THEN Append(d, NetworkOutput("epoch", "Epoch", <<Scalar(cur)>>))
    ELSE SetData(d, "epoch", Append(Get(d, "epoch").data, Scalar(cur)))

\* update d['epoch']
UpdateEpoch(d, cur) ==
    IF ~Has(d, "epoch")
    THEN Append(d, NetworkOutput("epoch", "Epoch", <<Scalar(cur)>>))
    ELSE IF LastOf(Get(d, "epoch").data) # Scalar(cur)
         THEN SetData(d, "epoch", Append(Get(d, "epoch").data, Scalar(cur)))
         ELSE d

EnsureSeries(d, name, kind) ==
    IF ~Has(d, name) THEN Append(d, NetworkOutput(name, kind, <<>>)) ELSE d

\* faulty variant: the isinstance test is lost: a third value nests the list
MergeRowNested(row, value) == List(<<row, Scalar(value)>>)

\* "already exists": the value joins the current row
MergeRow(row, value) ==
    IF row.tag = "L" THEN List(Append(row.l, Scalar(value)))
    ELSE List(<<row, Scalar(value)>>)

\* n times None
Nones(n) == [i \in 1..n |-> NoneRow]

\* faulty variant: >= for >
OutOfOrderOrEqual(name_len, epoch_len) == name_len >= epoch_len

\* save to back of d[name]; OutOfOrder is the raise
OutOfOrder(name_len, epoch_len) == name_len > epoch_len

\* faulty variant: the backfill is one None short
PlaceValueShort(data, epoch_len, value) ==
    LET name_len == Len(data) IN
    IF name_len = epoch_len
    THEN Append(Front(data), MergeRow(LastOf(data), value))
    ELSE IF name_len = epoch_len - 1
         THEN Append(data, Scalar(value))
         ELSE data \o Nones(epoch_len - name_len - 2) \o <<Scalar(value)>>

PlaceValue(data, epoch_len, value) ==
    LET name_len == Len(data) IN
    IF name_len = epoch_len
    THEN Append(Front(data), MergeRow(LastOf(data), value))
    ELSE IF name_len = epoch_len - 1
         THEN Append(data, Scalar(value))
         ELSE data \o Nones(epoch_len - name_len - 1) \o <<Scalar(value)>>

\* faulty variant: the scan is lost
RowCompleteAlways(d, epoch_len) == TRUE

\* faulty variant: the scan skips 'epoch' only
RowCompleteWithLr(d, epoch_len) ==
    \A i \in 1..Len(d) : d[i].name \notin {"epoch"} => Len(d[i].data) = epoch_len

\* the closing scan: every output but 'epoch' and 'learning_rate' has epoch_len rows
RowComplete(d, epoch_len) ==
    \A i \in 1..Len(d) :
        d[i].name \notin {"epoch", "learning_rate"} => Len(d[i].data) = epoch_len

\* the table after the call, whether it raised, and what it returned
save_output(d, name, kind, value, cur) ==
    LET d1 == EnsureSeries(UpdateEpoch(d, cur), name, kind)
        epoch_len == Len(Get(d1, "epoch").data)
        name_len == Len(Get(d1, name).data)
    IN  IF OutOfOrder(name_len, epoch_len)
        THEN [d |-> d1, raised |-> TRUE, ret |-> FALSE]
        ELSE LET d2 == SetData(d1, name, PlaceValue(Get(d1, name).data, epoch_len, value))
             IN  [d |-> d2, raised |-> FALSE, ret |-> RowComplete(d2, epoch_len)]

(***************************************************************************)
(* Graph formatting: lr_graph_data, loss_graph_data, accuracy_graph_data,  *)
(* combined_graph_data.  A payload is {columns, xs, names, axes}; the      *)
(* mappings are sets of <<key, value>> pairs; None is NoData.              *)
(***************************************************************************)
NoData == [columns |-> <<>>, xs |-> {}, axes |-> {}, names |-> {}]

MaxOf(a, b) == IF a >= b THEN a ELSE b

\* faulty variant: the division rounds up
StrideUp(n) == MaxOf((n + GRAPH_POINTS - 1) \div GRAPH_POINTS, 1)

\* stride = max(len(d['epoch'].data)/100, 1), python 2 integer division
Stride(n) == MaxOf(n \div GRAPH_POINTS, 1)

\* data[::stride]
Slice(data, stride) ==
    [i \in 1..((Len(data) + stride - 1) \div stride) |-> data[(i - 1) * stride + 1]]

\* 'accuracy' in kind.lower(), 'loss' in kind.lower(), over the kinds in use
ContainsAccuracy(kind) == kind \in {"Accuracy"}
ContainsLoss(kind) == kind \in {"SoftmaxWithLoss"}

\* faulty variant: the train side skips 'epoch' only, as the val side does
TrainIncludedLr(name) == name \notin {"epoch"}

\* which outputs combined_graph_data draws, per table
TrainIncluded(name) == name \notin {"epoch", "learning_rate"}
ValIncluded(name) == name \notin {"epoch"}

Column(id, vals) == [id |-> id, vals |-> vals]

\* One side (train or val) of a graph: the outputs the filter kept (outs), each
\* down-sampled with the table's stride, then the x column if any was added.
SideData(d, suffix, label, xid, outs, y2) ==
    IF Len(d) = 0 \/ ~Has(d, "epoch") THEN NoData
    ELSE
    LET stride == Stride(Len(Get(d, "epoch").data))
        cols == [i \in 1..Len(outs) |->
                    Column(outs[i].name \o suffix, Slice(outs[i].data, stride))]
    IN  IF Len(outs) = 0 THEN NoData
        ELSE [columns |-> Append(cols, Column(xid, Slice(Get(d, "epoch").data, stride))),
              xs |-> {<<outs[i].name \o suffix, xid>> : i \in 1..Len(outs)},
              axes |-> IF y2
                       THEN {<<outs[i].name \o suffix, "y2">> :
                               i \in {j \in 1..Len(outs) : ContainsAccuracy(outs[j].kind)}}
                       ELSE {},
              names |-> {<<outs[i].name \o suffix, outs[i].name \o label>> :
                            i \in 1..Len(outs)}]

JoinData(a, b) ==
    [columns |-> a.columns \o b.columns, xs |-> a.xs \cup b.xs,
     axes |-> a.axes \cup b.axes, names |-> a.names \cup b.names]

TrainCombined(o) == TrainIncluded(o.name)
ValCombined(o) == ValIncluded(o.name)

combined_graph_data(train, val) ==
    JoinData(SideData(train, "-train", " (train)", "train_epochs",
                      SelectSeq(train, TrainCombined), TRUE),
             SideData(val, "-val", " (val)", "val_epochs",
                      SelectSeq(val, ValCombined), TRUE))

TrainLoss(o) == o.name \notin {"epoch", "learning_rate"} /\ ContainsLoss(o.kind)
ValLoss(o) == o.name \notin {"epoch"} /\ ContainsLoss(o.kind)

loss_graph_data(train, val) ==
    JoinData(SideData(train, "-train", " (train)", "train_epochs",
                      SelectSeq(train, TrainLoss), FALSE),
             SideData(val, "-val", " (val)", "val_epochs",
                      SelectSeq(val, ValLoss), FALSE))

TrainAccuracy(o) == o.name \notin {"epoch", "learning_rate"} /\ o.kind = "Accuracy"
ValAccuracy(o) == o.name \notin {"epoch"} /\ o.kind = "Accuracy"

accuracy_graph_data(train, val) ==
    JoinData(SideData(train, "-train", " (train)", "train_epochs",
                      SelectSeq(train, TrainAccuracy), FALSE),
             SideData(val, "-val", " (val)", "val_epochs",
                      SelectSeq(val, ValAccuracy), FALSE))

lr_graph_data(train) ==
    IF Len(train) = 0 \/ ~Has(train, "epoch") \/ ~Has(train, "learning_rate") THEN NoData
    ELSE
    LET stride == Stride(Len(Get(train, "epoch").data))
    IN  [columns |-> <<Column("epoch", Slice(Get(train, "epoch").data, stride)),
                       Column("lr", Slice(Get(train, "learning_rate").data, stride))>>,
         xs |-> {<<"lr", "epoch">>},
         axes |-> {},
         names |-> {<<"lr", "Learning Rate">>}]

\* socketio.emit('task update', {'update': ..., 'data': ...})
Event(update, data) == [update |-> update, percentage |-> 0, data |-> data]
EmitIf(update, data) == IF data # NoData THEN <<Event(update, data)>> ELSE <<>>

(***************************************************************************)
(* The task object.                                                        *)
(***************************************************************************)
\* train_epochs -- how many epochs of training data to train on
TrainEpochs == MaxEpoch

NoState == [ver |-> 0, cur |-> 0, tl |-> <<>>, vl |-> <<>>, va |-> <<>>, lr |-> <<>>,
            has_lr |-> FALSE, train_outputs |-> <<>>, val_outputs |-> <<>>]
\* a call: its arguments, the clock and current_epoch it saw, the rows its series and
\* the epoch series had before it, the time of the last train-side push before it,
\* whether it raised and what save_output returned
NoCall == [op |-> "none", table |-> "", name |-> "", value |-> 0, t |-> 0,
           ret |-> FALSE, raised |-> FALSE, before |-> <<>>, epoch_before |-> <<>>,
           cur |-> 0, push_before |-> 0]

DataOf(d, name) == IF Has(d, name) THEN Get(d, name).data ELSE <<>>

NoHist == [tb \in Tables |-> [n \in Names |-> <<>>]]
NoGraph == [kind |-> "none", data |-> NoData]

\* the fields other than the tables, and the bookkeeping of a run that may make
\* n save_*_output calls
Blank(n) ==
    /\ current_epoch = 0
    /\ last_train_update = 0
    /\ now = 1
    /\ emitted = <<>>
    /\ last = NoCall
    /\ last_push = 0
    /\ mono = TRUE
    /\ hist = NoHist
    /\ budget = n
    /\ pickver_task_train = PICKLE_VERSION
    /\ graph = NoGraph

\* __init__
Fresh(n) ==
    /\ Blank(n)
    /\ train_outputs = EmptyTable
    /\ val_outputs = EmptyTable

Init == Fresh(MaxCalls) /\ pickled = NoState /\ obj = "live"

Live == obj = "live"

\* int(round(100*self.progress)), progress = epoch/train_epochs
Percentage(epoch) == (200 * epoch + TrainEpochs) \div (2 * TrainEpochs)

send_progress_update(epoch) ==
    /\ Live
    /\ IF current_epoch = epoch
       THEN /\ emitted' = <<>>
            /\ UNCHANGED <<current_epoch, mono, hist>>
       ELSE /\ current_epoch' = epoch
            /\ emitted' = <<[update |-> "progress", percentage |-> Percentage(epoch),
                             data |-> NoData]>>
            /\ mono' = (mono /\ epoch > current_epoch)
            /\ hist' = NoHist
    /\ last' = [NoCall EXCEPT !.op = "progress", !.value = epoch]
    /\ graph' = NoGraph
    /\ UNCHANGED <<train_outputs, val_outputs, last_train_update, now, last_push,
                   budget, pickled, obj, pickver_task_train>>

\* faulty variant: 4 seconds for 5
DebouncedShort(ltu, t) == ltu # 0 /\ (t - ltu) < TRAIN_UPDATE_INTERVAL - 1

\* if self.last_train_update and (time.time() - self.last_train_update) < 5
Debounced(ltu, t) == ltu # 0 /\ (t - ltu) < TRAIN_UPDATE_INTERVAL

Saved(tb, name, value, r) ==
    IF r.raised THEN hist
    ELSE [hist EXCEPT ![tb][name] = Append(@, value)]

save_train_output(name, kind, value, dt) ==
    LET r == save_output(train_outputs, name, kind, value, current_epoch)
        t == now + dt
        push == r.ret /\ ~Debounced(last_train_update, t)
    IN  /\ Live
        /\ budget > 0
        /\ train_outputs' = r.d
        /\ now' = t
        /\ last_train_update' = IF push THEN t ELSE last_train_update
        /\ emitted' = IF push
                      THEN EmitIf("combined_graph", combined_graph_data(r.d, val_outputs))
                           \o EmitIf("lr_graph", lr_graph_data(r.d))
                      ELSE <<>>
        /\ last_push' = IF emitted' # <<>> THEN t ELSE last_push
        /\ last' = [op |-> "train", table |-> "train", name |-> name, value |-> value,
                    t |-> t, ret |-> r.ret, raised |-> r.raised,
                    before |-> DataOf(train_outputs, name),
                    epoch_before |-> DataOf(train_outputs, "epoch"), cur |-> current_epoch,
                    push_before |-> last_push]
        /\ hist' = Saved("train", name, value, r)
        /\ budget' = budget - 1
        /\ graph' = NoGraph
        /\ UNCHANGED <<current_epoch, val_outputs, mono, pickled, obj, pickver_task_train>>

save_val_output(name, kind, value) ==
    LET r == save_output(val_outputs, name, kind, value, current_epoch)
    IN  /\ Live
        /\ budget > 0
        /\ val_outputs' = r.d
        /\ emitted' = IF r.ret
                      THEN EmitIf("combined_graph", combined_graph_data(train_outputs, r.d))
                      ELSE <<>>
        /\ last' = [op |-> "val", table |-> "val", name |-> name, value |-> value,
                    t |-> now, ret |-> r.ret, raised |-> r.raised,
                    before |-> DataOf(val_outputs, name),
                    epoch_before |-> DataOf(val_outputs, "epoch"), cur |-> current_epoch,
                    push_before |-> last_push]
        /\ hist' = Saved("val", name, value, r)
        /\ budget' = budget - 1
        /\ graph' = NoGraph
        /\ UNCHANGED <<current_epoch, train_outputs, last_train_update, now, last_push,
                       mono, pickled, obj, pickver_task_train>>

(***************************************************************************)
(* __setstate__: loading a persisted task                                  *)
(***************************************************************************)
Firsts(updates) == [i \in 1..Len(updates) |-> Scalar(updates[i][1])]
Seconds(updates) == [i \in 1..Len(updates) |-> Scalar(updates[i][2])]

\* state['train_outputs'] after the upgrade ("if tl:")
UpgradeTrain(tl, lr) ==
    IF Len(tl) > 0
    THEN <<NetworkOutput("epoch", "Epoch", Firsts(tl)),
           NetworkOutput("loss", "SoftmaxWithLoss", Seconds(tl)),
           NetworkOutput("learning_rate", "LearningRate", Seconds(lr))>>
    ELSE EmptyTable

\* state['val_outputs'] after the upgrade ("if vl:", and in it "if va:")
UpgradeVal(vl, va) ==
    IF Len(vl) > 0
    THEN <<NetworkOutput("epoch", "Epoch", Firsts(vl)),
           NetworkOutput("loss", "SoftmaxWithLoss", Seconds(vl))>>
         \o (IF Len(va) > 0
             THEN <<NetworkOutput("accuracy", "Accuracy", Seconds(va))>>
             ELSE <<>>)
    ELSE EmptyTable

\* [u[1] for u in lr] with lr None: TypeError
UpgradeRaises(st) == st.ver < 2 /\ Len(st.tl) > 0 /\ ~st.has_lr

setstate ==
    /\ obj = "none"
    /\ IF UpgradeRaises(pickled)
       THEN /\ obj' = "failed"
            /\ last' = [NoCall EXCEPT !.op = "load", !.raised = TRUE]
            /\ UNCHANGED <<train_outputs, val_outputs, current_epoch, pickver_task_train>>
       ELSE /\ obj' = "live"
            /\ last' = [NoCall EXCEPT !.op = "load"]
            /\ train_outputs' = IF pickled.ver < 2
                                THEN UpgradeTrain(pickled.tl, pickled.lr)
                                ELSE pickled.train_outputs
            /\ val_outputs' = IF pickled.ver < 2
                              THEN UpgradeVal(pickled.vl, pickled.va)
                              ELSE pickled.val_outputs
            /\ current_epoch' = pickled.cur
            /\ pickver_task_train' = PICKLE_VERSION
    /\ UNCHANGED <<last_train_update, now, emitted, last_push, mono, hist, budget, graph,
                   pickled>>

\* Version 1 kept four lists of (epoch, value) updates; the i-th values are told
\* apart by list (10+i, 20+i, 30+i, 40+i).  current_epoch is the last epoch of the
\* training loss list.
Updates(n, base) == [i \in 1..n |-> <<i - 1, base + i>>]
OldLens == 0..MaxOld
LastEpoch(n) == IF n > 0 THEN n - 1 ELSE 0

OldStates ==
    {[ver |-> 1, cur |-> LastEpoch(nt), tl |-> Updates(nt, 10), lr |-> Updates(nl, 20),
      vl |-> Updates(nv, 30), va |-> Updates(na, 40), has_lr |-> h,
      train_outputs |-> <<>>, val_outputs |-> <<>>] :
        nt \in OldLens, nl \in OldLens, nv \in OldLens, na \in OldLens, h \in BOOLEAN}

\* Version 2 keeps the two tables.
NewStates ==
    {[ver |-> 2, cur |-> LastEpoch(n), tl |-> <<>>, lr |-> <<>>, vl |-> <<>>, va |-> <<>>,
      has_lr |-> FALSE,
      train_outputs |-> UpgradeTrain(Updates(n, 10), Updates(n, 20)),
      val_outputs |-> UpgradeVal(Updates(n, 30), Updates(n, 40))] :
        n \in OldLens}

PickledStates == {st \in OldStates : st.has_lr \/ st.lr = <<>>} \cup NewStates

InitLoad == Fresh(MaxLoadCalls) /\ pickled \in PickledStates /\ obj = "none"

(***************************************************************************)
(* The graph functions as the web application calls them                   *)
(***************************************************************************)
GraphCall(kind, data) ==
    /\ Live
    /\ graph' = [kind |-> kind, data |-> data]
    /\ UNCHANGED <<current_epoch, train_outputs, val_outputs, last_train_update, now,
                   emitted, last, last_push, mono, hist, budget, pickled, obj,
                   pickver_task_train>>

GetCombinedGraph == GraphCall("combined", combined_graph_data(train_outputs, val_outputs))
GetLossGraph == GraphCall("loss", loss_graph_data(train_outputs, val_outputs))
GetAccuracyGraph == GraphCall("accuracy", accuracy_graph_data(train_outputs, val_outputs))
GetLrGraph == GraphCall("lr", lr_graph_data(train_outputs))

\* a table of n complete rows: row i holds epoch i-1 and value i of each output
Rows(n) == [i \in 1..n |-> Scalar(i)]
LongTable(n, outputs) ==
    <<NetworkOutput("epoch", "Epoch", [i \in 1..n |-> Scalar(i - 1)])>>
    \o [i \in 1..Len(outputs) |-> NetworkOutput(outputs[i][1], outputs[i][2], Rows(n))]

InitGraph ==
    /\ Blank(0)
    /\ pickled = NoState
    /\ obj = "live"
    /\ \E nt \in 1..MaxGraphRows, nv \in 1..MaxGraphRows :
          /\ nv \in {nt, MaxGraphRows + 1 - nt}
          /\ train_outputs = LongTable(nt, <<Loss, Accuracy, LearningRate>>)
          /\ val_outputs = LongTable(nv, <<Loss, Accuracy>>)

(***************************************************************************)
(* Specifications                                                          *)
(***************************************************************************)
TrainOutputs == {Loss, LearningRate}
ValOutputs == {Loss, LearningRate}
Pace == {0, 5}

\* the backend's calls on a new task
Next ==
    \/ \E epoch \in Epochs : send_progress_update(epoch)
    \/ \E o \in TrainOutputs, value \in OneValue, dt \in Pace :
           save_train_output(o[1], o[2], value, dt)
    \/ \E o \in ValOutputs, value \in OneValue : save_val_output(o[1], o[2], value)

Spec == Init /\ [][Next]_vars

\* the backend's calls, and the web application reading the combined graph
NextTables ==
    \/ \E epoch \in Epochs : send_progress_update(epoch)
    \/ \E o \in TrainOutputs, value \in OneValue : save_train_output(o[1], o[2], value, 0)
    \/ \E o \in ValOutputs, value \in OneValue : save_val_output(o[1], o[2], value)
    \/ GetCombinedGraph

SpecTables == Init /\ [][NextTables]_vars

\* the train side alone, at every pace
NextTrain ==
    \/ \E epoch \in Epochs : send_progress_update(epoch)
    \/ \E o \in TrainOutputs, value \in OneValue, dt \in Delays :
           save_train_output(o[1], o[2], value, dt)

SpecTrain == Init /\ [][NextTrain]_vars

\* one table, several values per row
NextOrder ==
    \/ \E epoch \in Epochs : send_progress_update(epoch)
    \/ \E value \in Values : save_val_output(Loss[1], Loss[2], value)
    \/ \E value \in OneValue : save_val_output(Accuracy[1], Accuracy[2], value)

InitRows == Fresh(MaxRowCalls) /\ pickled = NoState /\ obj = "live"

SpecOrder == InitRows /\ [][NextOrder]_vars

\* one table, three outputs
NextRows ==
    \/ \E epoch \in Epochs : send_progress_update(epoch)
    \/ \E o \in {Loss, Accuracy, LearningRate}, value \in OneValue :
           save_val_output(o[1], o[2], value)

SpecRows == InitRows /\ [][NextRows]_vars

\* a persisted task is loaded, then used
NextLoad ==
    \/ setstate
    \/ \E epoch \in Epochs : send_progress_update(epoch)
    \/ \E o \in TrainOutputs, value \in OneValue : save_train_output(o[1], o[2], value, 0)
    \/ \E o \in {Loss, Accuracy}, value \in OneValue : save_val_output(o[1], o[2], value)

SpecLoad == InitLoad /\ [][NextLoad]_vars

\* the graph functions on long tables
NextGraph == GetCombinedGraph \/ GetLossGraph \/ GetAccuracyGraph \/ GetLrGraph

SpecGraph == InitGraph /\ [][NextGraph]_vars

(***************************************************************************)
(* Properties                                                              *)
(***************************************************************************)
TableOf(tb) == IF tb = "train" THEN train_outputs ELSE val_outputs
\* the last call was save_train_output or save_val_output and did not raise
SaveReturned == last.op \in {"train", "val"} /\ ~last.raised
EpochLen(d) == Len(DataOf(d, "epoch"))
Tracked(d) == {i \in 1..Len(d) : d[i].name \notin {"epoch", "learning_rate"}}
Scalars(values) == [i \in 1..Len(values) |-> Scalar(values[i])]

\* C1: after each save_output call every series other than "epoch" and
\* "learning_rate" is at most as long as the epoch series, and the call returned
\* true exactly when all of them are as long as the epoch series.
C1_LengthsAndReturn ==
    SaveReturned =>
        LET d == TableOf(last.table) IN
        /\ \A i \in Tracked(d) : Len(d[i].data) <= EpochLen(d)
        /\ last.ret <=> \A i \in Tracked(d) : Len(d[i].data) = EpochLen(d)

\* a call returned true over two complete outputs although learning_rate is behind
C1_Witness ==
    /\ SaveReturned /\ last.ret
    /\ Cardinality(Tracked(val_outputs)) = 2
    /\ Has(val_outputs, "learning_rate")
    /\ Len(DataOf(val_outputs, "learning_rate")) < EpochLen(val_outputs)

\* C2 (as amended): while current_epoch has never decreased, after the k-th (k >= 2)
\* save_output call for one name since current_epoch last changed, the last row of
\* the series is the list of those k values in call order, the series did not grow
\* and the earlier rows are unchanged.
C2_SameEpochList ==
    (mono /\ SaveReturned /\ Len(hist[last.table][last.name]) >= 2) =>
        LET data == DataOf(TableOf(last.table), last.name) IN
        /\ LastOf(data) = List(Scalars(hist[last.table][last.name]))
        /\ Len(data) = Len(last.before)
        /\ Front(data) = Front(last.before)

\* three values in one row, after an earlier row
C2_Witness ==
    /\ mono /\ SaveReturned
    /\ Len(hist[last.table][last.name]) = 3
    /\ Len(DataOf(TableOf(last.table), last.name)) >= 2

\* C2 as claimed: the same for any table, whatever current_epoch did before.
C2_Original ==
    (SaveReturned /\ Len(hist[last.table][last.name]) >= 2) =>
        LET data == DataOf(TableOf(last.table), last.name) IN
        /\ LastOf(data) = List(Scalars(hist[last.table][last.name]))
        /\ Len(data) = Len(last.before)
        /\ Front(data) = Front(last.before)

\* the call found its series more than one row behind the epoch series
Gap == SaveReturned /\ Len(last.before) < EpochLen(TableOf(last.table)) - 1

\* C3: a save_output call for a series that is more than one row behind the epoch
\* series extends it by one None per missing row and then the value: the old rows
\* are kept, the new rows but the last are None, the last is the value, and the
\* series is as long as the epoch series.
C3_Backfill ==
    Gap =>
        LET d == TableOf(last.table)
            data == DataOf(d, last.name)
        IN  /\ Len(data) = EpochLen(d)
            /\ SubSeq(data, 1, Len(last.before)) = last.before
            /\ \A i \in (Len(last.before) + 1)..(Len(data) - 1) : data[i] = NoneRow
            /\ LastOf(data) = Scalar(last.value)

\* a backfill behind rows that were there
C3_Witness == Gap /\ Len(last.before) >= 1

\* the call's series was longer than the epoch series when the call was made
LongerAtCall == Len(last.before) > Len(last.epoch_before)
\* the call's series was longer than the epoch series once the call had added the
\* row of current_epoch to it
LongerInCall == Len(last.before) > EpochLen(TableOf(last.table))

\* C4 (as amended): save_output raises exactly when the series of the name is longer
\* than the epoch series after the call has added the row of current_epoch, and
\* then the series is left as it was.
C4_RaisesWhenLonger ==
    last.op \in {"train", "val"} =>
        /\ last.raised <=> LongerInCall
        /\ last.raised => DataOf(TableOf(last.table), last.name) = last.before

C4_Witness == last.op \in {"train", "val"} /\ last.raised /\ LongerAtCall

\* C4 as claimed: a call for a name whose series is longer than the epoch series at
\* the time of the call raises and stores nothing.
C4_Original ==
    (last.op \in {"train", "val"} /\ LongerAtCall) =>
        /\ last.raised
        /\ DataOf(TableOf(last.table), last.name) = last.before

StrictlyIncreasing(data) ==
    \A i \in 1..(Len(data) - 1) : data[i].tag = "S" /\ data[i + 1].tag = "S"
                                   /\ data[i].v < data[i + 1].v
NonDecreasing(data) ==
    \A i \in 1..(Len(data) - 1) : data[i].tag = "S" /\ data[i + 1].tag = "S"
                                   /\ data[i].v <= data[i + 1].v

\* C5 (as amended): current_epoch is what the last send_progress_update call was
\* given; every table that holds a series holds an "epoch" series; and while no
\* call has lowered current_epoch the entries of each epoch series are strictly
\* increasing (so non-decreasing) and none is above current_epoch.
C5_EpochSeries ==
    /\ last.op = "progress" => current_epoch = last.value
    /\ \A tb \in Tables :
          LET d == TableOf(tb) IN
          /\ Len(d) > 0 => Has(d, "epoch") /\ EpochLen(d) >= 1
          /\ mono => /\ StrictlyIncreasing(DataOf(d, "epoch"))
                     /\ \A i \in 1..EpochLen(d) : DataOf(d, "epoch")[i].v <= current_epoch

\* two epochs recorded, and a row that took two values
C5_Witness ==
    /\ mono
    /\ EpochLen(train_outputs) >= 2
    /\ \E i \in 1..Len(train_outputs) : \E j \in 1..Len(train_outputs[i].data) :
          train_outputs[i].data[j].tag = "L"

\* C5 as claimed: whatever the calls, current_epoch never decreases and every epoch
\* series is non-decreasing.
C5_Original ==
    [][/\ current_epoch' >= current_epoch
       /\ \A tb \in Tables : NonDecreasing(DataOf(TableOf(tb), "epoch"))']_vars

GraphEvents == {i \in 1..Len(emitted) : emitted[i].update \in {"combined_graph", "lr_graph"}}

\* C6: a save_train_output call made less than 5 seconds after the last train-side
\* push emits no graph message, and every call that does not raise leaves its value
\* last in its series (alone, or last in the list of the row).
C6_Debounce ==
    last.op = "train" =>
        /\ (last.push_before # 0 /\ last.t - last.push_before < 5) => GraphEvents = {}
        /\ ~last.raised =>
              LET row == LastOf(DataOf(train_outputs, last.name)) IN
              \/ row = Scalar(last.value)
              \/ row.tag = "L" /\ LastOf(row.l) = Scalar(last.value)

\* a complete row, 4 seconds after a push: saved, not pushed
C6_Witness ==
    /\ last.op = "train" /\ last.ret
    /\ last.push_before # 0 /\ last.t - last.push_before = 4
    /\ LastOf(DataOf(train_outputs, last.name)) = Scalar(last.value)

ColumnIds(data) == {data.columns[i].id : i \in 1..Len(data.columns)}

\* C7 (as amended): combined_graph_data has a column for an output of the train
\* table exactly when its name is neither "epoch" nor "learning_rate", and for an
\* output of the validation table exactly when its name is not "epoch": a
\* "learning_rate" series of the validation table gets a column.
C7_Columns ==
    graph.kind = "combined" =>
        \A name \in Names \cup {"epoch"} :
            /\ (name \o "-train") \in ColumnIds(graph.data)
                  <=> (Has(train_outputs, name) /\ name \notin {"epoch", "learning_rate"})
            /\ (name \o "-val") \in ColumnIds(graph.data)
                  <=> (Has(val_outputs, name) /\ name # "epoch")

\* learning_rate in both tables, beside a loss
C7_Witness ==
    /\ graph.kind = "combined"
    /\ Has(train_outputs, "learning_rate") /\ Has(train_outputs, "loss")
    /\ Has(val_outputs, "learning_rate")
    /\ "learning_rate-val" \in ColumnIds(graph.data)

\* C7 as claimed: a column exactly for the names other than "epoch" and
\* "learning_rate", in both tables.
C7_Original ==
    graph.kind = "combined" =>
        \A name \in Names \cup {"epoch"} :
            /\ (name \o "-train") \in ColumnIds(graph.data)
                  <=> (Has(train_outputs, name) /\ name \notin {"epoch", "learning_rate"})
            /\ (name \o "-val") \in ColumnIds(graph.data)
                  <=> (Has(val_outputs, name) /\ name \notin {"epoch", "learning_rate"})

\* C8: loading a version 1 state turns the four lists into series, every value kept
\* in order, and sets the version.
C8_Original ==
    (last.op = "load" /\ pickled.ver < PICKLE_VERSION) =>
        /\ obj = "live"
        /\ DataOf(train_outputs, "epoch") = Firsts(pickled.tl)
        /\ DataOf(train_outputs, "loss") = Seconds(pickled.tl)
        /\ DataOf(train_outputs, "learning_rate") = Seconds(pickled.lr)
        /\ DataOf(val_outputs, "epoch") = Firsts(pickled.vl)
        /\ DataOf(val_outputs, "loss") = Seconds(pickled.vl)
        /\ DataOf(val_outputs, "accuracy") = Seconds(pickled.va)
        /\ pickver_task_train = PICKLE_VERSION

\* where each column of a graph comes from
Sources ==
    {[id |-> n \o "-train", tb |-> "train", name |-> n] : n \in Names}
    \cup {[id |-> n \o "-val", tb |-> "val", name |-> n] : n \in Names}
    \cup {[id |-> "train_epochs", tb |-> "train", name |-> "epoch"],
          [id |-> "val_epochs", tb |-> "val", name |-> "epoch"],
          [id |-> "epoch", tb |-> "train", name |-> "epoch"],
          [id |-> "lr", tb |-> "train", name |-> "learning_rate"]}

\* C9: every column of every graph holds rows 0, s, 2s, ... of its series, with
\* s = max(floor(n / 100), 1) for the n rows of the epoch series of its own table:
\* ceil(n / s) points, never more than 200; 250 rows give 125 points, 50 give 50.
C9_Stride ==
    graph.kind # "none" =>
        \A i \in 1..Len(graph.data.columns) :
            LET col == graph.data.columns[i]
                src == CHOOSE x \in Sources : x.id = col.id
                n == EpochLen(TableOf(src.tb))
                s == IF n >= 200 THEN n \div 100 ELSE 1
                data == DataOf(TableOf(src.tb), src.name)
            IN  /\ Len(col.vals) * s >= n /\ (Len(col.vals) - 1) * s < n
                /\ \A j \in 1..Len(col.vals) : col.vals[j] = data[(j - 1) * s + 1]
                /\ Len(col.vals) <= 200
                /\ n = 250 => Len(col.vals) = 125
                /\ n = 50 => Len(col.vals) = 50

\* the two tables have different strides
C9_Witness ==
    /\ graph.kind = "combined"
    /\ EpochLen(train_outputs) = 250
    /\ EpochLen(val_outputs) = 1
    /\ Len(graph.data.columns[1].vals) = 125

Points(data, id) ==
    Len((CHOOSE c \in {data.columns[i] : i \in 1..Len(data.columns)} : c.id = id).vals)

\* the columns a call can vouch for: those of the table it saved to, learning_rate aside
OwnColumn(id, x) ==
    \/ last.op = "train" /\ x = "train_epochs"
    \/ last.op = "val" /\ x = "val_epochs" /\ id # "learning_rate-val"

\* C10 (as amended): in every graph message a save_*_output call emits, no data
\* column has more points than its x column, and the columns of the table the call
\* saved to, learning_rate aside, have exactly as many.
C10_Aligned ==
    \A i \in GraphEvents : \A m \in emitted[i].data.xs :
        /\ Points(emitted[i].data, m[1]) <= Points(emitted[i].data, m[2])
        /\ OwnColumn(m[1], m[2]) =>
              Points(emitted[i].data, m[1]) = Points(emitted[i].data, m[2])

\* a train-side push while the validation table has a short series
C10_Witness ==
    /\ last.op = "train"
    /\ \E i \in GraphEvents :
          /\ <<"loss-train", "train_epochs">> \in emitted[i].data.xs
          /\ <<"loss-val", "val_epochs">> \in emitted[i].data.xs
          /\ Points(emitted[i].data, "loss-val") < Points(emitted[i].data, "val_epochs")

\* C10 as claimed: every data column has as many points as its x column.
C10_Original ==
    \A i \in GraphEvents : \A m \in emitted[i].data.xs :
        Points(emitted[i].data, m[1]) = Points(emitted[i].data, m[2])

====
